---- MODULE Spec2Model ----
(***************************************************************************)
(* Model of src/server.js: the /api/scan probe (URL normalisation, the     *)
(* bounded HEAD/GET redirect chase, block-page fingerprinting and the      *)
(* verdict), with the remote servers and the timers as the environment.    *)
(*                                                                         *)
(* Strings are TLA+ strings; TLC evaluates Len, \o, SubSeq, Head and Tail   *)
(* on them, so trimming, lower-casing, substring search and URL parsing    *)
(* are computed character by character.                                    *)
(*                                                                         *)
(* Elapsed milliseconds are not counted: the ms field of a result holds    *)
(* the point at which tryFetch reads the clock.  Not modelled: request     *)
(* headers, the static file host, CORS and the listening port.             *)
(***************************************************************************)
EXTENDS Integers, Sequences, FiniteSets, TLC

(* An optional value (null / undefined in the source) is <<>>; a present   *)
(* value v is <<v>>.                                                       *)
Null == <<>>
Some(v) == <<v>>

(* Let(v, F) is F(v) with v evaluated once: TLC re-evaluates an operator's *)
(* argument at each use, which the string operators below cannot afford.  *)
Let(v, F(_)) == CHOOSE r \in {F(x) : x \in {v}} : TRUE

\* ------------------------------------------------------------- strings

UpperLetters == "ABCDEFGHIJKLMNOPQRSTUVWXYZ"
LowerLetters == "abcdefghijklmnopqrstuvwxyz"

\* One character of String.prototype.toLowerCase (ASCII letters).
LowerChar(char) ==
  Let(char, LAMBDA c :
    Let({i \in 1..26 : SubSeq(UpperLetters, i, i) = c}, LAMBDA at :
      IF at = {} THEN c
      ELSE Let(CHOOSE i \in at : TRUE, LAMBDA i : SubSeq(LowerLetters, i, i))))

RECURSIVE LowerFrom(_, _)
LowerFrom(s, from) ==
  Let(from, LAMBDA i :
    IF i > Len(s) THEN ""
    ELSE LowerChar(SubSeq(s, i, i)) \o LowerFrom(s, i + 1))

\* String.prototype.toLowerCase
ToLowerCase(str) == Let(str, LAMBDA s : LowerFrom(s, 1))

\* String.prototype.includes
Includes(str, pattern) ==
  Let(str, LAMBDA s : Let(pattern, LAMBDA p :
    \E i \in 0..(Len(s) - Len(p)) : SubSeq(s, i + 1, i + Len(p)) = p))

IsSpace(c) == c \in {" ", "\t"}

\* the least element of a non-empty set of integers
Least(S) == CHOOSE i \in S : \A k \in S : i <= k
Greatest(S) == CHOOSE i \in S : \A k \in S : k <= i

\* String.prototype.trim: from the first to the last character that is no space
Trim(str) ==
  Let(str, LAMBDA s :
    Let({i \in 1..Len(s) : ~IsSpace(SubSeq(s, i, i))}, LAMBDA keep :
      IF keep = {} THEN "" ELSE SubSeq(s, Least(keep), Greatest(keep))))

\* s starts with the lower-case prefix pre, letter case ignored
StartsWithNoCase(str, pre) ==
  Let(str, LAMBDA s :
    Len(s) >= Len(pre) /\ ToLowerCase(SubSeq(s, 1, Len(pre))) = pre)

\* the scheme test without its i flag
HasHttpSchemeExact(str) ==
  Let(str, LAMBDA s :
    \/ Len(s) >= 7 /\ SubSeq(s, 1, 7) = "http://"
    \/ Len(s) >= 8 /\ SubSeq(s, 1, 8) = "https://")

\* /^https?:\/\//i.test(s)
HasHttpScheme(str) ==
  Let(str, LAMBDA s :
    StartsWithNoCase(s, "http://") \/ StartsWithNoCase(s, "https://"))

\* ---------------------------------------------------------------- URLs
(* new URL(...) for the http and https schemes over the characters the     *)
(* model's inputs use (letters, digits, ".", "/", ":" after the scheme,    *)
(* space): scheme and host are lower-cased, slashes after "scheme:" are    *)
(* skipped, an empty host or a host holding a space is a failure, and an   *)
(* empty path becomes "/".  Ports, credentials, queries, fragments, dot    *)
(* segments and percent-encoding do not occur in the inputs.               *)

\* the positions of s holding a "/"
Slashes(s) == {i \in 1..Len(s) : SubSeq(s, i, i) = "/"}

\* s without its leading slashes
SkipSlashes(str) ==
  Let(str, LAMBDA s :
    Let((1..Len(s)) \ Slashes(s), LAMBDA keep :
      IF keep = {} THEN "" ELSE SubSeq(s, Least(keep), Len(s))))

\* index of the first "/" of s, or Len(s) + 1
FirstSlash(str) ==
  Let(str, LAMBDA s :
    Let(Slashes(s), LAMBDA at : IF at = {} THEN Len(s) + 1 ELSE Least(at)))

\* index of the last "/" of s, or 0
LastSlash(str) ==
  Let(str, LAMBDA s :
    Let(Slashes(s), LAMBDA at : IF at = {} THEN 0 ELSE Greatest(at)))

\* the parsed URL, serialised, or the failure of a host that is no host
Serialize(scheme, hostname, pathname) ==
  Let(hostname, LAMBDA host :
    IF host = "" \/ Includes(host, " ")
    THEN [ok |-> FALSE, error |-> "Invalid URL"]
    ELSE [ok |-> TRUE,
          href |-> scheme \o "://" \o host
                   \o (IF pathname = "" THEN "/" ELSE pathname)])

\* new URL(s).toString() for s with an http(s) scheme; ok = FALSE: it throws
ParseURL(str) ==
  Let(str, LAMBDA s :
    Let(IF StartsWithNoCase(s, "https:") THEN "https" ELSE "http", LAMBDA scheme :
      Let(SkipSlashes(SubSeq(s, Len(scheme) + 2, Len(s))), LAMBDA rest :
        Let(FirstSlash(rest), LAMBDA cut :
          Serialize(scheme,
                    ToLowerCase(SubSeq(rest, 1, cut - 1)),
                    SubSeq(rest, cut, Len(rest)))))))

\* scheme://host of a serialised URL
Origin(url) ==
  Let(url, LAMBDA href :
    Let(IF StartsWithNoCase(href, "https://") THEN 9 ELSE 8, LAMBDA start :
      SubSeq(href, 1, start - 1 + FirstSlash(SubSeq(href, start, Len(href))) - 1)))

\* new URL(loc, base).toString(), base a serialised URL
ResolveURL(location, baseURL) ==
  Let(location, LAMBDA loc : Let(baseURL, LAMBDA base :
    IF HasHttpScheme(loc) THEN ParseURL(loc)
    ELSE IF Head(loc) = "/" THEN [ok |-> TRUE, href |-> Origin(base) \o loc]
    ELSE [ok |-> TRUE, href |-> SubSeq(base, 1, LastSlash(base)) \o loc]))

\* normalizeUrl(input): input is Null (undefined) or Some(string)
normalizeUrl(input) ==
  Let(Trim(IF input = Null THEN "" ELSE input[1]), LAMBDA s :
    IF s = "" THEN [ok |-> FALSE, error |-> "Empty URL"]
    ELSE ParseURL(IF HasHttpScheme(s) THEN s ELSE "https://" \o s))

\* ----------------------------------------------------------- detector

BLOCK_FINGERPRINTS ==
  << [name |-> "GoGuardian",
      patterns |-> <<"goguardian", "blocked by goguardian", "ggrouter">>],
     [name |-> "Securly", patterns |-> <<"securly", "blocked by securly">>],
     [name |-> "Lightspeed",
      patterns |-> <<"lightspeed systems", "relay.lightspeedsystems">>],
     [name |-> "iBoss", patterns |-> <<"iboss", "iboss cloud">>],
     [name |-> "FortiGuard", patterns |-> <<"fortiguard", "web filter">>],
     [name |-> "Cisco Umbrella",
      patterns |-> <<"umbrella", "opendns", "domain blocked">>] >>

\* the generic list with an empty phrase in it
GenericPhrasesWithEmpty ==
  <<"access denied", "this site is blocked", "content blocked",
    "blocked by policy", "web page blocked", "filter", "policy", "">>

GenericPhrases ==
  <<"access denied", "this site is blocked", "content blocked",
    "blocked by policy", "web page blocked", "filter", "policy">>

\* patterns.some(p => s.includes(p))
SomeIncluded(s, patterns) ==
  \E j \in 1..Len(patterns) : Includes(s, patterns[j])

\* the loop returning the last fingerprint with a pattern in s
LastMatch(s) ==
  Let({i \in 1..Len(BLOCK_FINGERPRINTS) :
         SomeIncluded(s, BLOCK_FINGERPRINTS[i].patterns)}, LAMBDA hits :
    IF hits # {} THEN Some(BLOCK_FINGERPRINTS[Greatest(hits)].name)
    ELSE IF SomeIncluded(s, GenericPhrases) THEN Some("Generic filter page")
    ELSE Null)

\* the first fingerprint with a pattern in s, else the generic phrases
FirstMatch(s) ==
  Let({i \in 1..Len(BLOCK_FINGERPRINTS) :
         SomeIncluded(s, BLOCK_FINGERPRINTS[i].patterns)}, LAMBDA hits :
    IF hits # {} THEN Some(BLOCK_FINGERPRINTS[Least(hits)].name)
    ELSE IF SomeIncluded(s, GenericPhrases) THEN Some("Generic filter page")
    ELSE Null)

DetectCaseSensitive(snippet) == Let(snippet, LAMBDA s : FirstMatch(s))

\* detectBlock(snippet): Some(vendor name) or Null
detectBlock(snippet) == Let(ToLowerCase(snippet), LAMBDA s : FirstMatch(s))

\* ------------------------------------------------------------- tryFetch

\* const ms = Date.now() - start: once the response headers arrived, or in the catch block
MsAtHeaders == "from start to response headers"
MsAtCatch == "from start to catch"

\* tryFetch's catch block dropping the error description
FailureResultNoError(message) == [ok |-> FALSE, ms |-> MsAtCatch]

\* an aborted call reported as an answer with a timeout status
FailureResultAsStatus(message) ==
  [ok |-> FALSE, error |-> message, ms |-> MsAtCatch, status |-> 408]

\* the value tryFetch returns from its catch block
FailureResult(message) == [ok |-> FALSE, error |-> message, ms |-> MsAtCatch]

\* the value tryFetch returns for a response res; body is "" for a HEAD
SuccessResult(res, bodySnippet) ==
  [ok |-> TRUE,
   status |-> res.status,
   ms |-> MsAtHeaders,
   headers |-> [location |-> res.location,
                contentType |-> IF res.contentType = Null THEN ""
                                ELSE res.contentType[1]],
   bodySnippet |-> bodySnippet]

SNIPPET_LIMIT == 6000

\* text.slice(0, 6000)
Slice(text) == SubSeq(text, 1, IF Len(text) < SNIPPET_LIMIT THEN Len(text) ELSE SNIPPET_LIMIT)

\* error messages of the transport: controller.abort(), a network failure
\* of fetch, a connection lost while the body is read
AbortMessage == "This operation was aborted"
NetworkMessage == "fetch failed"
BodyMessage == "terminated"

\* --------------------------------------------------------- orchestrator

\* the loop's bound off by one, either way; the catch block answering 500
HopLimitSeven == 6 + 1
HopLimitFive == 6 - 1
ErrorStatusServer == 400 + 100

HOP_LIMIT == 6
REDIRECT_STATUSES == {301, 302, 303, 307, 308}
ERROR_STATUS == 400

\* the GET's entry pushed as the HEAD's was
EntryAlwaysHead(url, method, result) == [url |-> url, method |-> "HEAD"] @@ result

\* { url: current, method, ...result }
Entry(url, method, result) == [url |-> url, method |-> method] @@ result

\* a JavaScript string-or-null used as a condition
Truthy(opt) == opt # Null /\ opt[1] # ""

\* const loc = head.ok ? head.headers.location : null
HeadLocation(head) == IF head.ok THEN head.headers.location ELSE Null

\* the redirect branch taken for any status with a Location
IsRedirectAnyStatus(head) == Truthy(HeadLocation(head))

\* the condition of the redirect branch
IsRedirect(head) ==
  Truthy(HeadLocation(head)) /\ head.status \in REDIRECT_STATUSES

\* const needGet = !head.ok || head.status >= 400 || !head.headers.contentType
NeedGet(head) ==
  \/ ~head.ok
  \/ head.status >= 400
  \/ head.headers.contentType = ""

\* chain.slice().reverse().find(x => x.method === "GET") || chain[chain.length - 1]
LastAttempt(ch) ==
  LET gets == {i \in 1..Len(ch) : ch[i].method = "GET"}
  IN IF gets # {} THEN Some(ch[Greatest(gets)])
     ELSE IF ch # <<>> THEN Some(ch[Len(ch)])
     ELSE Null

\* last?.bodySnippet || ""
SnippetOf(last) ==
  IF last # Null /\ "bodySnippet" \in DOMAIN last[1] THEN last[1].bodySnippet ELSE ""

\* the verdict without its 403 row
VerdictNo403(last, blockVendor) ==
  LET ok == last # Null /\ last[1].ok
  IN IF blockVendor # Null THEN [verdict |-> "likely_blocked", score |-> 90]
     ELSE IF ok /\ last[1].status >= 200 /\ last[1].status < 400
       THEN [verdict |-> "likely_allowed", score |-> 80]
     ELSE IF ~ok THEN [verdict |-> "uncertain", score |-> 45]
     ELSE [verdict |-> "uncertain", score |-> 50]

\* the verdict without its transport-failure row
VerdictNoFailureRow(last, blockVendor) ==
  LET ok == last # Null /\ last[1].ok
  IN IF blockVendor # Null THEN [verdict |-> "likely_blocked", score |-> 90]
     ELSE IF ok /\ last[1].status >= 200 /\ last[1].status < 400
       THEN [verdict |-> "likely_allowed", score |-> 80]
     ELSE IF ok /\ last[1].status = 403
       THEN [verdict |-> "likely_blocked", score |-> 75]
     ELSE [verdict |-> "uncertain", score |-> 50]

\* the verdict and score for a last attempt and a detector result
Verdict(last, blockVendor) ==
  LET ok == last # Null /\ last[1].ok
  IN IF blockVendor # Null THEN [verdict |-> "likely_blocked", score |-> 90]
     ELSE IF ok /\ last[1].status >= 200 /\ last[1].status < 400
       THEN [verdict |-> "likely_allowed", score |-> 80]
     ELSE IF ok /\ last[1].status = 403
       THEN [verdict |-> "likely_blocked", score |-> 75]
     ELSE IF ~ok THEN [verdict |-> "uncertain", score |-> 45]
     ELSE [verdict |-> "uncertain", score |-> 50]

\* one entry of the response's chain
Summary(x) ==
  [url |-> x.url,
   method |-> x.method,
   ok |-> x.ok,
   status |-> IF "status" \in DOMAIN x THEN Some(x.status) ELSE Null,
   ms |-> x.ms,
   location |-> IF "headers" \in DOMAIN x THEN x.headers.location ELSE Null,
   contentType |-> IF "headers" \in DOMAIN x THEN Some(x.headers.contentType) ELSE Null,
   error |-> IF "error" \in DOMAIN x THEN Some(x.error) ELSE Null]

\* the object given to res.json
SuccessResponse(tgt, ch) ==
  Let(LastAttempt(ch), LAMBDA last :
    Let(detectBlock(SnippetOf(last)), LAMBDA blockVendor :
      Let(Verdict(last, blockVendor), LAMBDA v :
        [status |-> 200,
         body |-> [input |-> tgt,
                   verdict |-> v.verdict,
                   score |-> v.score,
                   blockVendor |-> blockVendor,
                   chain |-> [i \in 1..Len(ch) |-> Summary(ch[i])]]])))

\* res.status(400).json({ error })
ErrorResponse(message) ==
  [status |-> ERROR_STATUS, body |-> [error |-> message]]

\* ---------------------------------------------------------- environment
(* What the remote servers may answer.  Every request draws its outcome    *)
(* anew from the site's sets, so a URL may redirect on one request and     *)
(* answer on the next.  A site is a record of                              *)
(*   redirects: HEAD answers that the probe follows,                       *)
(*   heads:     the other HEAD answers,                                    *)
(*   gets:      GET answers (status, headers and the body text).           *)

Response(status, location, contentType) ==
  [status |-> status, location |-> location, contentType |-> contentType]

Page(status, contentType, text) ==
  [status |-> status, location |-> Null, contentType |-> contentType,
   text |-> text]

Html == Some("text/html")
BadLocation == "http://"

\* HEAD answers that end the chase, whatever the site
TerminalHeads ==
  { Response(200, Null, Html),
    Response(200, Null, Null),
    Response(403, Null, Html),
    Response(404, Null, Null),
    Response(500, Some("/login"), Html),
    Response(300, Some("/login"), Null),
    Response(304, Some("a/"), Html),
    Response(302, Null, Null),
    Response(301, Some(""), Html),
    Response(302, Some(BadLocation), Html),
    Response(302, Some(BadLocation), Null) }

\* the model's bound: a block phrase starts up to MaxOffset characters into a body
MaxOffset == 1

RECURSIVE Fill(_)
Fill(k) == IF k = 0 THEN "" ELSE "x" \o Fill(k - 1)

\* pages holding "blocked by goguardian" in some letter case, one per status class
GuardianPages ==
  { Page(v[1], Html, Fill(k) \o v[2]) :
      v \in { <<200, "blocked by goguardian">>,
              <<302, "Blocked By GoGuardian policy">>,
              <<403, "BLOCKED BY GOGUARDIAN">>,
              <<404, "Umbrella says: Blocked by GoGuardian">>,
              <<500, "bLOCKED bY gOgUARDIAN">> },
      k \in 0..MaxOffset }

Pages ==
  GuardianPages \cup
  { Page(200, Html, "<html>Hello</html>"),
    Page(200, Null, ""),
    Page(200, Html, "Web Filter by Securly"),
    Page(403, Html, "Web filter: domain blocked"),
    Page(301, Html, "Moved"),
    Page(403, Html, "Forbidden"),
    Page(403, Html, "Access Denied"),
    Page(404, Html, "Not Found"),
    Page(500, Null, "Server error") }

\* the redirects each site answers with
Redirects ==
  [moved    |-> {Response(302, Some("/login"), Null),
                 Response(301, Some("a/"), Html)},
   seeOther |-> {Response(303, Some("a/"), Null)},
   elsewhere |-> {Response(307, Some("https://B.test/x"), Html)},
   permanent |-> {Response(308, Some("a/"), Html)}]

Sites == DOMAIN Redirects

\* the site and the inputs of the runs with concurrent requests
LeanSite ==
  [redirects |-> {Response(302, Some("a/"), Null)},
   heads |-> {Response(200, Null, Html),
              Response(302, Some(BadLocation), Html)},
   gets |-> {Page(403, Html, "Blocked by GoGuardian")}]

\* the answers of the site named name
Site(name) ==
  IF name = "lean" THEN LeanSite
  ELSE [redirects |-> Redirects[name], heads |-> TerminalHeads, gets |-> Pages]

LeanInputs == {Some(""), Some("example.com")}

ConcClients == {1, 2}

Inputs ==
  { Null, Some(""), Some("  \t "), Some("https://"), Some("bad host"),
    Some("example.com"), Some(" HTTP://A.test/x "), Some("https://Example.com") }

\* ---------------------------------------------------------------- state

VARIABLES
  clients,    \* the inbound requests being served
  site,       \* the name of the site: what the remote servers may answer
  req,        \* req[p]: the url field of request p's body
  pc,         \* pc[p]: "recv", "fetch" (awaiting fetch), "text" (awaiting res.text()), "done"
  target,     \* the handler's locals of request p
  current,
  hop,
  chain,
  call,       \* call[p]: the tryFetch call in flight, [url, method, n] (and res once it arrived)
  timers,     \* pending setTimeout timers, [p, n]: of request p's n-th tryFetch call
  wire,       \* wire[p]: the transport requests issued so far, in order
  responses   \* responses[p]: what was sent on res, in order

vars == <<clients, site, req, pc, target, current, hop, chain, call, timers,
          wire, responses>>

InitWith(cs, sites, inputs) ==
  /\ clients = cs
  /\ site \in sites
  /\ req \in [cs -> inputs]
  /\ pc = [p \in cs |-> "recv"]
  /\ target = [p \in cs |-> Null]
  /\ current = [p \in cs |-> Null]
  /\ hop = [p \in cs |-> 0]
  /\ chain = [p \in cs |-> <<>>]
  /\ call = [p \in cs |-> Null]
  /\ timers = {}
  /\ wire = [p \in cs |-> <<>>]
  /\ responses = [p \in cs |-> <<>>]

Init == InitWith({1}, Sites, Inputs)

\* two inbound requests served at once
InitConc == InitWith(ConcClients, {"lean"}, LeanInputs)

\* -------------------------------------------------------------- actions

\* a local declared outside the handler: one variable for every request
UpdShared(f, p, v) == [q \in DOMAIN f |-> v]

Upd(f, p, v) == [f EXCEPT ![p] = v]

\* tryFetch without its finally block
TimeoutNotCleared(tm, t) == tm

\* clearTimeout(t)
ClearTimeout(tm, t) == tm \ {t}

\* a catch block that sends nothing
CatchSendsNothing(message) == <<>>

\* what the handler's catch block sends
CatchResponses(message) == <<ErrorResponse(message)>>

(* The handler calls tryFetch(url, method) and waits for fetch: a timer is  *)
(* set and the request goes out.  tm: the pending timers, h and ch: the    *)
(* loop's hop and chain at the call.                                       *)
StartFetch(p, tm, url, h, ch, method) ==
  LET n == Len(wire[p]) + 1
  IN /\ pc' = Upd(pc, p, "fetch")
     /\ current' = Upd(current, p, Some(url))
     /\ hop' = Upd(hop, p, h)
     /\ chain' = Upd(chain, p, ch)
     /\ call' = Upd(call, p, Some([url |-> url, method |-> method, n |-> n]))
     /\ timers' = tm \cup {[p |-> p, n |-> n]}
     /\ wire' = Upd(wire, p, Append(wire[p], [url |-> url, method |-> method]))
     /\ UNCHANGED responses

\* the loop is left: verdict and res.json
Finish(p, tm, tgt, cur, h, ch) ==
  /\ pc' = Upd(pc, p, "done")
  /\ current' = Upd(current, p, cur)
  /\ hop' = Upd(hop, p, h)
  /\ chain' = Upd(chain, p, ch)
  /\ call' = Upd(call, p, Null)
  /\ timers' = tm
  /\ responses' = Upd(responses, p, Append(responses[p], SuccessResponse(tgt, ch)))
  /\ UNCHANGED wire

\* an exception reaches the handler's catch block
Throw(p, tm, message, ch) ==
  /\ pc' = Upd(pc, p, "done")
  /\ chain' = Upd(chain, p, ch)
  /\ call' = Upd(call, p, Null)
  /\ timers' = tm
  /\ responses' = Upd(responses, p, responses[p] \o CatchResponses(message))
  /\ UNCHANGED <<current, hop, wire>>

\* the for statement's test, then its body or the code after the loop
Loop(p, tm, tgt, url, h, ch) ==
  IF h < HOP_LIMIT
  THEN StartFetch(p, tm, url, h, ch, "HEAD")
  ELSE Finish(p, tm, tgt, Some(url), h, ch)

(* tryFetch returned result to the handler (tm: the timers left pending):  *)
(* the rest of the loop body, up to the next await or the response.        *)
Resume(p, tm, result) ==
  LET c   == call[p][1]
      cur == current[p][1]
      tgt == target[p][1]
      ch  == Append(chain[p], Entry(cur, c.method, result))
  IN IF c.method = "HEAD"
     THEN IF IsRedirect(result)
          THEN LET next == ResolveURL(HeadLocation(result)[1], cur)
               IN IF next.ok
                  THEN Loop(p, tm, tgt, next.href, hop[p] + 1, ch)
                  ELSE Throw(p, tm, next.error, ch)
          ELSE IF NeedGet(result)
               THEN StartFetch(p, tm, cur, hop[p], ch, "GET")
               ELSE Finish(p, tm, tgt, current[p], hop[p], ch)
     ELSE Finish(p, tm, tgt, current[p], hop[p], ch)

\* the timer of the call in flight
TimerOf(p) == [p |-> p, n |-> call[p][1].n]

\* app.post("/api/scan") runs up to its first await
Receive(p) ==
  /\ pc[p] = "recv"
  /\ LET n == normalizeUrl(req[p])
     IN IF n.ok
        THEN /\ target' = Upd(target, p, Some(n.href))
             /\ Loop(p, timers, n.href, n.href, 0, <<>>)
        ELSE /\ Throw(p, timers, n.error, <<>>)
             /\ UNCHANGED target
  /\ UNCHANGED <<clients, site, req>>

\* fetch resolves with a response
FetchResolves(p) ==
  /\ pc[p] = "fetch"
  /\ LET c == call[p][1]
     IN IF c.method = "HEAD"
        THEN \E res \in Site(site).redirects \cup Site(site).heads :
               Resume(p, ClearTimeout(timers, TimerOf(p)), SuccessResult(res, ""))
        ELSE \E res \in Site(site).gets :
               /\ pc' = Upd(pc, p, "text")
               /\ call' = Upd(call, p, Some(c @@ [res |-> res]))
               /\ UNCHANGED <<current, hop, chain, timers, wire, responses>>
  /\ UNCHANGED <<clients, site, req, target>>

\* fetch rejects: a network failure
FetchRejects(p) ==
  /\ pc[p] = "fetch"
  /\ Resume(p, ClearTimeout(timers, TimerOf(p)), FailureResult(NetworkMessage))
  /\ UNCHANGED <<clients, site, req, target>>

\* res.text() resolves
TextResolves(p) ==
  /\ pc[p] = "text"
  /\ LET res == call[p][1].res
     IN Resume(p, ClearTimeout(timers, TimerOf(p)), SuccessResult(res, Slice(res.text)))
  /\ UNCHANGED <<clients, site, req, target>>

\* res.text() rejects: the connection fails while the body is read
TextRejects(p) ==
  /\ pc[p] = "text"
  /\ Resume(p, ClearTimeout(timers, TimerOf(p)), FailureResult(BodyMessage))
  /\ UNCHANGED <<clients, site, req, target>>

(* A timer fires: controller.abort().  The call it belongs to, if still in *)
(* flight, has its await rejected (in fetch or in res.text()).             *)
TimerFires(t) ==
  /\ t \in timers
  /\ IF call[t.p] # Null /\ call[t.p][1].n = t.n
     THEN Resume(t.p, ClearTimeout(timers \ {t}, t), FailureResult(AbortMessage))
     ELSE /\ timers' = timers \ {t}
          /\ UNCHANGED <<pc, current, hop, chain, call, wire, responses>>
  /\ UNCHANGED <<clients, site, req, target>>

Next ==
  \/ \E p \in clients : Receive(p)
  \/ \E p \in clients : FetchResolves(p)
  \/ \E p \in clients : FetchRejects(p)
  \/ \E p \in clients : TextResolves(p)
  \/ \E p \in clients : TextRejects(p)
  \/ \E t \in timers : TimerFires(t)

Spec == Init /\ [][Next]_vars

\* the call of request p in flight settles: an answer, a failure or its timeout
Settles(p) ==
  \/ FetchResolves(p)
  \/ FetchRejects(p)
  \/ TextResolves(p)
  \/ TextRejects(p)
  \/ \E t \in timers : t.p = p /\ TimerFires(t)

SpecConc == InitConc /\ [][Next]_vars

(* The event loop runs every handler whose request arrived, and every      *)
(* transport call returns: the server answers, the connection fails, or    *)
(* the call's own timer aborts it.                                         *)
FairSpec ==
  /\ InitConc
  /\ [][Next]_vars
  /\ \A p \in ConcClients : WF_vars(Receive(p)) /\ WF_vars(Settles(p))

\* --------------------------------------------------------------- claims

Done(p) == pc[p] = "done"
Reply(p) == responses[p][1]
IsSuccess(r) == DOMAIN r.body = {"input", "verdict", "score", "blockVendor", "chain"}
IsError(r) == DOMAIN r.body = {"error"} /\ r.status \in 400..499
Succeeded(p) == Done(p) /\ Len(responses[p]) = 1 /\ IsSuccess(Reply(p))
Heads(ch) == {i \in 1..Len(ch) : ch[i].method = "HEAD"}
Gets(ch) == {i \in 1..Len(ch) : ch[i].method = "GET"}

\* a HEAD entry the spec's step 3b follows: succeeded, redirect code, Location present
Followed(e) ==
  /\ e.method = "HEAD"
  /\ e.ok
  /\ e.status \in {301, 302, 303, 307, 308}
  /\ e.headers.location # Null
  /\ e.headers.location[1] # ""

TimedOut(e) == ~e.ok /\ e.error = AbortMessage

\* the decision table of the spec's step 6
Table(vendorDetected, succeeded, status) ==
  IF vendorDetected THEN <<"likely_blocked", 90>>
  ELSE IF succeeded /\ status \in 200..399 THEN <<"likely_allowed", 80>>
  ELSE IF succeeded /\ status = 403 THEN <<"likely_blocked", 75>>
  ELSE IF ~succeeded THEN <<"uncertain", 45>>
  ELSE <<"uncertain", 50>>

\* the table applied to chain entry e, with no vendor detected unless stated
TableFor(vendorDetected, e) ==
  Table(vendorDetected, e.ok, IF e.ok THEN e.status ELSE 0)

\* the spec's step 4: the most recent GET of the chain, else its final entry
SpecLast(ch) ==
  IF Gets(ch) # {} THEN ch[Greatest(Gets(ch))] ELSE ch[Len(ch)]

(* C1: whatever the servers answer, a chain holds at most 6 HEAD entries   *)
(* and at most one GET entry, a GET entry is the chain's last entry, so    *)
(* the chain has at most 7 entries, and at most 7 requests are issued.     *)
C1_ChainBounded ==
  \A p \in clients :
    /\ Cardinality(Heads(chain[p])) <= 6
    /\ Cardinality(Gets(chain[p])) <= 1
    /\ \A i \in Gets(chain[p]) : i = Len(chain[p])
    /\ Len(chain[p]) <= 7
    /\ Len(wire[p]) <= 7
    /\ Succeeded(p) => Len(Reply(p).body.chain) <= 7

\* a probe answered after 6 HEADs on 6 distinct URLs, each one a followed redirect
C1_Witness ==
  \E p \in clients :
    /\ Succeeded(p)
    /\ Len(chain[p]) = 6
    /\ \A i \in 1..6 : Followed(chain[p][i])
    /\ \A i, j \in 1..6 : i # j => chain[p][i].url # chain[p][j].url

(* C2: a HEAD that succeeds with a redirect status and a Location that     *)
(* cannot be resolved into a URL is treated as no usable redirect: the     *)
(* probe still answers with a chain and a verdict, not with an error.      *)
C2_BadLocationFallsThrough ==
  \A p \in clients :
    ( /\ Done(p)
      /\ \E i \in 1..Len(chain[p]) :
           /\ Followed(chain[p][i])
           /\ ~ResolveURL(chain[p][i].headers.location[1], chain[p][i].url).ok )
    => Succeeded(p)

(* C3: a transport failure of a HEAD or GET attempt is appended to the     *)
(* chain with ok = false and an error description, the same request is not *)
(* issued again, and the probe answers with a chain and a verdict.         *)
C3_FailureRecorded ==
  \A p \in clients :
    \A i \in 1..Len(chain[p]) :
      ~chain[p][i].ok =>
        /\ "error" \in DOMAIN chain[p][i]
        /\ chain[p][i].error # ""
        /\ "status" \notin DOMAIN chain[p][i]
        /\ \A j \in (i + 1)..Len(wire[p]) :
             wire[p][j].method # chain[p][i].method
        /\ Done(p) =>
             /\ Succeeded(p)
             /\ Reply(p).body.verdict \in {"likely_blocked", "likely_allowed", "uncertain"}
             /\ Len(Reply(p).body.chain) = Len(chain[p])
             /\ ~Reply(p).body.chain[i].ok
             /\ Reply(p).body.chain[i].error = Some(chain[p][i].error)

\* after two followed redirects the HEAD fails, the GET answers, and the probe answers
C3_Witness ==
  \E p \in clients :
    /\ Succeeded(p)
    /\ Len(chain[p]) = 4
    /\ chain[p][3].method = "HEAD" /\ ~chain[p][3].ok
    /\ chain[p][4].method = "GET" /\ chain[p][4].ok

(* C4: every probe whose input normalizes answers with a chain of at       *)
(* least one entry whose first entry is a HEAD on the normalized target    *)
(* (the response's input); no chain is produced only when normalization    *)
(* fails.                                                                  *)
C4_ChainUnlessInvalidInput ==
  \A p \in clients :
    (Done(p) /\ normalizeUrl(req[p]).ok) =>
      /\ Succeeded(p)
      /\ Len(Reply(p).body.chain) >= 1
      /\ Reply(p).body.chain[1].method = "HEAD"
      /\ Reply(p).body.chain[1].url = Reply(p).body.input

\* the input is missing, empty or made of white space only
IsBlank(input) ==
  input = Null \/ \A i \in 1..Len(input[1]) : SubSeq(input[1], i, i) \in {" ", "\t"}

(* C5: for an empty, missing or whitespace-only input no transport request *)
(* is ever issued, and the probe is answered with a 4xx error object that  *)
(* holds no chain, verdict or score.                                       *)
C5_BlankInputRejected ==
  \A p \in clients :
    IsBlank(req[p]) =>
      /\ wire[p] = <<>>
      /\ chain[p] = <<>>
      /\ timers = {}
      /\ Done(p) =>
           /\ Len(responses[p]) = 1
           /\ Reply(p).status \in 400..499
           /\ DOMAIN Reply(p).body = {"error"}

\* a whitespace-only input was answered
C5_Witness ==
  \E p \in clients :
    /\ Done(p)
    /\ req[p] # Null /\ Len(req[p][1]) > 0 /\ IsBlank(req[p])
    /\ Len(responses[p]) = 1

(* C6: the verdict and score of every answer are the spec's decision table *)
(* applied to the last attempt (the most recent GET, else the final entry):*)
(* vendor detected -> likely_blocked 90; else succeeded with status in     *)
(* [200,400) -> likely_allowed 80; else succeeded with 403 ->              *)
(* likely_blocked 75; else not succeeded -> uncertain 45; else uncertain   *)
(* 50.  A lone HEAD answered 200 with a Content-Type gives likely_allowed, *)
(* 80 and no vendor.                                                       *)
C6_VerdictTable ==
  \A p \in clients :
    Succeeded(p) =>
      /\ <<Reply(p).body.verdict, Reply(p).body.score>> =
           TableFor(Reply(p).body.blockVendor # Null, SpecLast(chain[p]))
      /\ ( /\ Len(chain[p]) = 1
           /\ chain[p][1].ok
           /\ chain[p][1].status = 200
           /\ chain[p][1].headers.contentType # "" )
         => /\ Reply(p).body.verdict = "likely_allowed"
            /\ Reply(p).body.score = 80
            /\ Reply(p).body.blockVendor = Null

\* a GET answered 403 with no fingerprint in its body: likely_blocked, 75
C6_Witness ==
  \E p \in clients :
    /\ Succeeded(p)
    /\ SpecLast(chain[p]).method = "GET"
    /\ SpecLast(chain[p]).ok
    /\ SpecLast(chain[p]).status = 403
    /\ Reply(p).body.blockVendor = Null
    /\ Reply(p).body.score = 75

(* C7: whenever the GET's body snippet holds "blocked by goguardian" in    *)
(* any letter case, the answer is blockVendor GoGuardian, likely_blocked,  *)
(* score 90, whatever the GET's status.                                    *)
C7_GoGuardianDetected ==
  \A p \in clients :
    ( /\ Succeeded(p)
      /\ Gets(chain[p]) # {}
      /\ SpecLast(chain[p]).ok
      /\ Includes(ToLowerCase(SpecLast(chain[p]).bodySnippet), "blocked by goguardian") )
    => /\ Reply(p).body.blockVendor = Some("GoGuardian")
       /\ Reply(p).body.verdict = "likely_blocked"
       /\ Reply(p).body.score = 90

\* a 404 page naming another vendor first and the phrase in mixed case
C7_Witness ==
  \E p \in clients :
    /\ Succeeded(p)
    /\ Gets(chain[p]) # {}
    /\ SpecLast(chain[p]).ok
    /\ SpecLast(chain[p]).status = 404
    /\ Includes(SpecLast(chain[p]).bodySnippet, "Umbrella says: Blocked by GoGuardian")
    /\ Reply(p).body.blockVendor = Some("GoGuardian")

(* C8: when the HEAD on the target times out and the GET that follows on   *)
(* the same URL times out too, the chain has exactly these two entries,    *)
(* both ok = false, and the answer is uncertain, 45, no vendor.            *)
C8_DoubleTimeout ==
  \A p \in clients :
    ( /\ Len(chain[p]) >= 2
      /\ chain[p][1].method = "HEAD" /\ TimedOut(chain[p][1])
      /\ TimedOut(chain[p][2]) )
    => /\ Len(chain[p]) = 2
       /\ chain[p][2].method = "GET"
       /\ chain[p][2].url = chain[p][1].url
       /\ Len(wire[p]) = 2
       /\ Succeeded(p)
       /\ Reply(p).body.verdict = "uncertain"
       /\ Reply(p).body.score = 45
       /\ Reply(p).body.blockVendor = Null
       /\ \A i \in 1..2 : ~Reply(p).body.chain[i].ok

\* both attempts on the target were aborted by their timers
C8_Witness ==
  \E p \in clients :
    /\ Done(p)
    /\ Len(chain[p]) = 2
    /\ TimedOut(chain[p][1])
    /\ TimedOut(chain[p][2])
    /\ chain[p][1].url = target[p][1]

(* C9: five HEADs answered 302 with a Location and then a HEAD that is no  *)
(* redirect give a chain of exactly 6 HEAD entries; and a probe answered   *)
(* after nothing but followed redirects has exactly 6 HEAD entries and no  *)
(* GET, issued no request after the 6th HEAD (the URL resolved from its    *)
(* Location is not requested), and has the verdict of its final entry.     *)
C9_HopLimit ==
  \A p \in clients :
    /\ ( /\ Done(p)
         /\ Len(chain[p]) >= 6
         /\ \A i \in 1..5 : Followed(chain[p][i]) /\ chain[p][i].status = 302
         /\ ~Followed(chain[p][6]) )
       => /\ Cardinality(Heads(chain[p])) = 6
          /\ Heads(chain[p]) = 1..6
    /\ ( /\ Succeeded(p)
         /\ \A i \in 1..Len(chain[p]) : Followed(chain[p][i]) )
       => /\ Len(chain[p]) = 6
          /\ Gets(chain[p]) = {}
          /\ Len(wire[p]) = 6
          /\ wire[p][6].url = chain[p][6].url
          /\ current[p] =
               Some(ResolveURL(chain[p][6].headers.location[1], chain[p][6].url).href)
          /\ <<Reply(p).body.verdict, Reply(p).body.score>> =
               TableFor(FALSE, chain[p][6])
          /\ Reply(p).body.blockVendor = Null

\* five 302s to /login and a sixth HEAD that answers 200
C9_Witness ==
  \E p \in clients :
    /\ Succeeded(p)
    /\ Len(chain[p]) = 6
    /\ \A i \in 1..5 :
         /\ Followed(chain[p][i])
         /\ chain[p][i].status = 302
         /\ chain[p][i].headers.location = Some("/login")
    /\ chain[p][6].ok /\ chain[p][6].status = 200

(* C10: when every transport call returns, every probe ends up with       *)
(* exactly one response sent, a success object or a 4xx error object; no   *)
(* probe is left unanswered by an exception, and a probe that fails does   *)
(* not keep another probe served at the same time from being answered.     *)
C10_EveryProbeAnswersOnce ==
  /\ \A p \in ConcClients : <>[](Len(responses[p]) = 1)
  /\ [](\A p \in clients :
          /\ Len(responses[p]) <= 1
          /\ Done(p) => Len(responses[p]) = 1
          /\ \A i \in 1..Len(responses[p]) :
               \/ IsSuccess(responses[p][i]) /\ responses[p][i].status = 200
               \/ IsError(responses[p][i]))

\* one probe ended in the catch block after a HEAD, the other was answered with a verdict
C10_Witness ==
  \E p, q \in clients :
    /\ p # q
    /\ Done(p) /\ Len(responses[p]) = 1 /\ IsError(Reply(p)) /\ chain[p] # <<>>
    /\ Succeeded(q) /\ Len(chain[q]) >= 2

\* the rules of the fingerprint list with a pattern that is a substring of s
MatchingRules(s) ==
  {i \in 1..Len(BLOCK_FINGERPRINTS) :
     \E pat \in {BLOCK_FINGERPRINTS[i].patterns[j] :
                   j \in 1..Len(BLOCK_FINGERPRINTS[i].patterns)} : Includes(s, pat)}

GenericMatches(s) ==
  \E pat \in {GenericPhrases[j] : j \in 1..Len(GenericPhrases)} : Includes(s, pat)

\* the snippet the detector is given: that of the last attempt, "" if it has none
DetectorInput(ch) ==
  IF ch # <<>> /\ "bodySnippet" \in DOMAIN SpecLast(ch)
  THEN SpecLast(ch).bodySnippet ELSE ""

(* C11: the detector's result for a snippet is the name of the first rule  *)
(* in declaration order with some pattern that is a substring of the       *)
(* lower-cased snippet, whatever the order of the patterns in the rule;    *)
(* it is "Generic filter page" only if no rule matches and a generic       *)
(* phrase does; it is absent otherwise.  A snippet matching a vendor and a *)
(* generic phrase gives the vendor.                                        *)
C11_DetectorPrecedence ==
  \A p \in clients :
    Succeeded(p) =>
      Let(ToLowerCase(DetectorInput(chain[p])), LAMBDA s :
        Let(MatchingRules(s), LAMBDA hits :
          Let(GenericMatches(s), LAMBDA generic :
            Let(Reply(p).body.blockVendor, LAMBDA vendor :
              /\ hits # {} =>
                   \E i \in hits :
                     /\ \A j \in hits : i <= j
                     /\ vendor = Some(BLOCK_FINGERPRINTS[i].name)
              /\ vendor = Some("Generic filter page") <=> (hits = {} /\ generic)
              /\ vendor = Null <=> (hits = {} /\ ~generic)
              /\ (hits # {} /\ generic) =>
                   /\ vendor # Null
                   /\ vendor # Some("Generic filter page")))))

\* a body matching the 2nd and the 5th rule and a generic phrase gives the 2nd rule
C11_Witness ==
  \E p \in clients :
    /\ Succeeded(p)
    /\ {2, 5} \subseteq MatchingRules(ToLowerCase(DetectorInput(chain[p])))
    /\ GenericMatches(ToLowerCase(DetectorInput(chain[p])))
    /\ Reply(p).body.blockVendor = Some("Securly")

\* href starts with pre
StartsWith(href, pre) == Len(href) >= Len(pre) /\ SubSeq(href, 1, Len(pre)) = pre

(* C12: an input whose trimmed text starts with http:// or https://, in    *)
(* any letter case, is normalized to a URL of that scheme; any other       *)
(* non-empty input is parsed with https:// put before it; and every        *)
(* normalized URL starts with http:// or https://.  Stated of the target   *)
(* when normalizeUrl has just returned it (the first HEAD is in flight;    *)
(* no later step assigns target), and of the answer's input.               *)
C12_SchemeKept ==
  \A p \in clients :
    /\ (target[p] # Null /\ chain[p] = <<>> /\ pc[p] = "fetch") =>
         Let(Trim(req[p][1]), LAMBDA s :
           Let(target[p][1], LAMBDA href :
             Let(StartsWithNoCase(s, "http://"), LAMBDA http :
               Let(StartsWithNoCase(s, "https://"), LAMBDA https :
                 /\ s # ""
                 /\ http => StartsWith(href, "http://")
                 /\ https => StartsWith(href, "https://")
                 /\ ~(http \/ https) =>
                      /\ ParseURL("https://" \o s).ok
                      /\ href = ParseURL("https://" \o s).href
                      /\ StartsWith(href, "https://")
                 /\ call[p][1].url = href))))
    /\ target[p] # Null =>
         StartsWith(target[p][1], "http://") \/ StartsWith(target[p][1], "https://")
    /\ Succeeded(p) => Reply(p).body.input = target[p][1]

\* an input given as HTTP:// in capitals, with spaces around it, was normalized and answered
C12_Witness ==
  \E p \in clients :
    /\ Succeeded(p)
    /\ req[p] = Some(" HTTP://A.test/x ")
    /\ target[p] = Some("http://a.test/x")

\* the request issued right after the HEAD recorded as entry i, if any
NextRequest(p, i) ==
  IF i < Len(wire[p]) THEN Some(wire[p][i + 1]) ELSE Null

\* the Location of HEAD entry e resolved against the entry's url
Resolved(e) == ResolveURL(e.headers.location[1], e.url)

(* C13: after a HEAD, the probe goes on to a next hop (unless the HEAD was *)
(* the 6th) if and only if the HEAD succeeded with status 301, 302, 303,   *)
(* 307 or 308 and a non-empty Location; the next HEAD's URL is then the    *)
(* Location resolved against the HEAD's URL; after any other HEAD no HEAD  *)
(* is issued any more.                                                     *)
C13_RedirectFollowed ==
  \A p \in clients :
    \A i \in Heads(chain[p]) :
      LET e == chain[p][i]
          next == NextRequest(p, i)
          continues == next # Null /\ next[1].method = "HEAD"
      IN /\ continues <=> (Followed(e) /\ i < 6)
         /\ continues => Resolved(e).ok /\ next[1].url = Resolved(e).href
         /\ ~Followed(e) => \A j \in (i + 1)..Len(wire[p]) : wire[p][j].method # "HEAD"

\* the need of a GET as the spec's step 3c states it
GetRequired(e) ==
  \/ ~e.ok
  \/ e.status >= 400
  \/ e.headers.contentType = ""

(* C14: right after a HEAD a GET is issued if and only if the HEAD is not  *)
(* a redirect that was followed and it failed, or answered a status >=     *)
(* 400, or named no Content-Type; the GET is on the HEAD's URL and is the  *)
(* chain's next entry; after a followed redirect no GET is issued, with or *)
(* without a Content-Type.                                                 *)
C14_GetWhenNeeded ==
  \A p \in clients :
    \A i \in Heads(chain[p]) :
      LET e == chain[p][i]
          next == NextRequest(p, i)
          followed == Followed(e) /\ Resolved(e).ok
          get == next # Null /\ next[1].method = "GET"
      IN /\ get <=> (~followed /\ GetRequired(e))
         /\ get => /\ next[1].url = e.url
                    /\ Len(chain[p]) > i =>
                         chain[p][i + 1].method = "GET" /\ chain[p][i + 1].url = e.url
         /\ \A j \in Gets(chain[p]) :
              j > 1 /\ chain[p][j - 1].method = "HEAD" /\ chain[p][j - 1].url = chain[p][j].url

\* the transport requests of probe p issued and not yet returned to the handler
InFlight(p) == Len(wire[p]) - Len(chain[p])

(* C15: a probe has at most one transport request in flight; a request is  *)
(* issued only when every earlier one has returned and is in the chain,    *)
(* so the chain's entries are the issued requests, in the order of issue.  *)
C15_OneRequestInFlight ==
  \A p \in clients :
    /\ InFlight(p) \in {0, 1}
    /\ InFlight(p) = 1 <=> pc[p] \in {"fetch", "text"}
    /\ InFlight(p) = 1 <=> call[p] # Null
    /\ call[p] # Null =>
         /\ call[p][1].n = Len(wire[p])
         /\ call[p][1].url = wire[p][Len(wire[p])].url
         /\ call[p][1].method = wire[p][Len(wire[p])].method
    /\ \A i \in 1..Len(chain[p]) :
         /\ chain[p][i].url = wire[p][i].url
         /\ chain[p][i].method = wire[p][i].method
    /\ Cardinality({t \in timers : t.p = p}) <= 1

\* the body of a GET is being read, after two HEADs that have returned
C15_Witness ==
  \E p \in clients :
    /\ pc[p] = "text"
    /\ Len(chain[p]) = 2
    /\ Len(wire[p]) = 3
    /\ wire[p][3].method = "GET"

\* the timer set by the n-th tryFetch call of probe p
TimerOfCall(p, n) == [p |-> p, n |-> n]

(* C16: the pending timers are exactly the timers of the tryFetch calls in *)
(* flight, one for each: a call that has returned (with a response, a      *)
(* transport failure, a failure of the body read or its timeout) has no    *)
(* timer pending, no timer is pending for a probe that has responded, and  *)
(* the only timer that can fire during a call is the call's own.           *)
C16_TimersCleared ==
  /\ timers = {TimerOfCall(p, Len(wire[p])) : p \in {q \in clients : call[q] # Null}}
  /\ \A p \in clients :
       /\ \A i \in 1..Len(chain[p]) : TimerOfCall(p, i) \notin timers
       /\ Done(p) => \A t \in timers : t.p # p
       /\ responses[p] # <<>> => \A t \in timers : t.p # p

\* a probe answered after a GET aborted by its timer while the other probe reads a body
C16_Witness ==
  \E p, q \in clients :
    /\ p # q
    /\ Succeeded(p)
    /\ Len(chain[p]) >= 2
    /\ TimedOut(chain[p][Len(chain[p])])
    /\ pc[q] = "text"
    /\ timers = {TimerOfCall(q, Len(wire[q]))}

(* C17: when the timer of a call in flight fires, while fetch is awaited   *)
(* or while the body of a GET is read after its headers arrived, the call  *)
(* returns at once and its attempt is recorded as a failure: ok = false,   *)
(* an error description and the elapsed time, no status code and no body   *)
(* snippet; and so it is reported in the probe's answer.                   *)
C17_TimeoutIsFailure ==
  [][\A t \in timers :
       (call[t.p] # Null /\ call[t.p][1].n = t.n /\ TimerFires(t)) =>
         LET p == t.p
             e == chain'[p][Len(chain'[p])]
         IN /\ Len(chain'[p]) = Len(chain[p]) + 1
            /\ e.url = call[p][1].url
            /\ e.method = call[p][1].method
            /\ ~e.ok
            /\ DOMAIN e = {"url", "method", "ok", "error", "ms"}
            /\ e.error # ""
            /\ call'[p] = Null \/ call'[p][1].n > t.n
            /\ t \notin timers'
            /\ (pc'[p] = "done" /\ IsSuccess(responses'[p][1])) =>
                 LET x == responses'[p][1].body.chain[Len(chain'[p])]
                 IN /\ ~x.ok
                    /\ x.status = Null
                    /\ x.error = Some(e.error)
                    /\ x.ms = e.ms]_vars

\* a HEAD answered 200 without Content-Type, then the GET was aborted by its timer
C17_Witness ==
  \E p \in clients :
    /\ Succeeded(p)
    /\ Len(chain[p]) = 2
    /\ chain[p][1].ok /\ chain[p][1].status = 200
    /\ chain[p][2].method = "GET"
    /\ TimedOut(chain[p][2])
    /\ "status" \notin DOMAIN chain[p][2]
    /\ "bodySnippet" \notin DOMAIN chain[p][2]
    /\ Reply(p).body.chain[2].status = Null

\* the handler state and the pending timers of probe p
Own(p) ==
  <<pc[p], target[p], current[p], hop[p], chain[p], call[p], wire[p],
    responses[p], {t \in timers : t.p = p}>>

(* C18: with probes served at once, every step reads and writes the chain, *)
(* current URL, hop counter and the other locals of one probe only, and a  *)
(* probe's answer is determined by its input and the outcomes of its own   *)
(* requests: its chain starts at its own normalized input and follows its  *)
(* own requests, and two probes with the same input and the same outcomes  *)
(* are answered alike, whatever the other did in between.                  *)
C18_ProbesIndependent ==
  /\ [][\E p \in clients : \A q \in clients \ {p} : Own(q)' = Own(q)]_vars
  /\ [](\A p \in clients :
          /\ \A i \in 1..Len(chain[p]) :
               chain[p][i].url = wire[p][i].url /\ chain[p][i].method = wire[p][i].method
          /\ wire[p] # <<>> => wire[p][1].url = normalizeUrl(req[p]).href
          /\ \A q \in clients :
               (Done(p) /\ Done(q) /\ req[p] = req[q] /\ chain[p] = chain[q])
                 => responses[p] = responses[q])

\* two probes of the same input answered differently, each by its own outcomes
C18_Witness ==
  \E p, q \in clients :
    /\ p # q
    /\ req[p] = req[q]
    /\ Succeeded(p) /\ Succeeded(q)
    /\ Len(chain[p]) = 1 /\ Reply(p).body.verdict = "likely_allowed"
    /\ Len(chain[q]) >= 3 /\ Reply(q).body.blockVendor = Some("GoGuardian")

(* C19: an answer names a vendor, or has score 90, only if its chain ends  *)
(* with a GET entry that succeeded; a probe whose chain has no GET, or     *)
(* whose GET failed, is answered with blockVendor null.                    *)
C19_VendorNeedsBody ==
  \A p \in clients :
    Succeeded(p) =>
      LET ch == chain[p]
          endsWithGoodGet == ch # <<>> /\ ch[Len(ch)].method = "GET" /\ ch[Len(ch)].ok
      IN /\ Reply(p).body.blockVendor # Null => endsWithGoodGet
         /\ Reply(p).body.score = 90 => endsWithGoodGet
         /\ Reply(p).body.blockVendor # Null <=> Reply(p).body.score = 90
         /\ Gets(ch) = {} => Reply(p).body.blockVendor = Null
         /\ (\E i \in Gets(ch) : ~ch[i].ok) => Reply(p).body.blockVendor = Null
         /\ \A i \in 1..Len(ch) :
              \/ "bodySnippet" \notin DOMAIN ch[i]
              \/ ch[i].bodySnippet = ""
              \/ ch[i].method = "GET" /\ ch[i].ok

\* the body read of the GET failed: no vendor, uncertain 45
C19_Witness ==
  \E p \in clients :
    /\ Succeeded(p)
    /\ Len(chain[p]) = 2
    /\ chain[p][2].method = "GET"
    /\ ~chain[p][2].ok
    /\ chain[p][2].error = BodyMessage
    /\ Reply(p).body.blockVendor = Null
    /\ Reply(p).body.score = 45

(* C20: in every chain every entry but the last one or two (the terminal   *)
(* HEAD and its GET, if any) is a successful HEAD with a redirect status   *)
(* and a Location; every HEAD entry after the first is on the previous     *)
(* HEAD's Location resolved against the previous HEAD's url; and the       *)
(* attempt selected for the verdict is the chain's final entry.            *)
C20_ChainShape ==
  \A p \in clients :
    LET ch == chain[p]
        n == Len(ch)
    IN /\ \A i \in 1..(n - 2) : Followed(ch[i])
       /\ (n >= 2 /\ ch[n].method = "HEAD") => Followed(ch[n - 1])
       /\ \A i \in 2..n :
            ch[i].method = "HEAD" =>
              /\ ch[i - 1].method = "HEAD"
              /\ Followed(ch[i - 1])
              /\ Let(Resolved(ch[i - 1]), LAMBDA next :
                   next.ok /\ ch[i].url = next.href)
       /\ n >= 1 =>
            /\ LastAttempt(ch) = Some(ch[n])
            /\ SpecLast(ch) = ch[n]

\* three followed redirects, a HEAD answered 404 and its GET
C20_Witness ==
  \E p \in clients :
    /\ Succeeded(p)
    /\ Len(chain[p]) = 5
    /\ \A i \in 1..3 : Followed(chain[p][i])
    /\ chain[p][4].method = "HEAD" /\ chain[p][4].ok /\ chain[p][4].status = 404
    /\ chain[p][5].method = "GET"
    /\ chain[p][2].url # chain[p][1].url

====
